---- MODULE Spec2Model ----
(***************************************************************************)
(* MappingDockerClient (dockermap/map/client.py): a container map is       *)
(* reflected on a Docker client.  The engine's state is the two name       *)
(* caches; the runtime behind the client is the set of existing and        *)
(* running containers and the set of image tags.  Every public method is   *)
(* one action; the runtime calls it issues are recorded, in order, in the  *)
(* record of the last operation.                                           *)
(***************************************************************************)
EXTENDS Integers, Sequences, FiniteSets, Bags, TLC

\* Python's None, for an instance name, a user, a permission spec, ...
None == "None"

\* ------------------------------------------------------------------ bounds
\* Operations performed in one behaviour.
MaxOps == 2
\* Disposable helper containers the runtime may be left with.
MaxHelpers == 2

\* --------------------------------------------------------------- utilities
\* Op applied to the value of x: the steps of a method run one after another
Then(x, Op(_)) == CHOOSE r \in {Op(v) : v \in {x}} : TRUE

Range(s) == {s[i] : i \in 1..Len(s)}

Reverse(s) == [i \in 1..Len(s) |-> s[Len(s) + 1 - i]]

\* s without the elements that occur earlier in it
RECURSIVE Dedup(_)
Dedup(s) ==
    IF s = <<>> THEN <<>>
    ELSE LET front == Dedup(SubSeq(s, 1, Len(s) - 1))
             x == s[Len(s)]
         IN IF x \in Range(front) THEN front ELSE Append(front, x)

SelectIn(s, S) == SelectSeq(s, LAMBDA x : x \in S)

\* a Python dict: its keys and a value for each
EmptyDict == [keys |-> {}, val |-> <<>>]

DictPut(d, k, v) ==
    [keys |-> d.keys \cup {k},
     val  |-> [x \in d.keys \cup {k} |-> IF x = k THEN v ELSE d.val[x]]]

DictUpdate(d, e) ==
    [keys |-> d.keys \cup e.keys,
     val  |-> [x \in d.keys \cup e.keys |-> IF x \in e.keys THEN e.val[x] ELSE d.val[x]]]

\* ------------------------------------------------------------ container map
\* An image reference "name" or "name:tag"; tag "" when the reference has none.
Image(name, tag) == [name |-> name, tag |-> tag]

DEFAULT_BASEIMAGE == Image("tianon/true", "")
DEFAULT_COREIMAGE == Image("busybox", "")

\* A container assignment of the map.
Assignment(image, instances, shares, binds, user, permissions, links_to, uses, attaches) ==
    [image |-> image, instances |-> instances, shares |-> shares, binds |-> binds,
     user |-> user, environment |-> None, permissions |-> permissions,
     links_to |-> links_to, uses |-> uses, attaches |-> attaches]

NoImage == Image("", "")
Bind(alias, rw) == [volume |-> alias, rw |-> rw]
Link(container, alias) == [container |-> container, alias |-> alias]
HostSingle(path) == [kind |-> "single", path |-> path, at |-> {}, paths |-> <<>>]
HostPerInstance(insts, paths) == [kind |-> "dict", path |-> None, at |-> insts, paths |-> paths]

\* db owns the attached volume "data"; web uses and links db.
MapA ==
    [name |-> "a",
     order |-> <<"db", "web">>,
     cfg |-> [c \in {"db", "web"} |->
        IF c = "db"
        THEN Assignment(NoImage, <<>>, <<>>, <<>>, "pg", None, <<>>, <<>>, <<"data">>)
        ELSE Assignment(NoImage, <<>>, <<>>, <<>>, None, None,
                        <<Link("db", "database")>>, <<"db">>, <<>>)],
     volumes |-> [a \in {"data"} |-> "/var/lib/data"],
     host |-> [a \in {} |-> None]]

\* web uses db and app; app (two named instances, the attached volume "sock")
\* uses db; app's image has a tag.
MapB ==
    [name |-> "b",
     order |-> <<"db", "app", "web">>,
     cfg |-> [c \in {"db", "app", "web"} |->
        CASE c = "db" ->
               Assignment(NoImage, <<>>, <<"/run">>, <<>>, None, None, <<>>, <<>>, <<>>)
          [] c = "app" ->
               Assignment(Image("app", "v1"), <<"i1", "i2">>, <<>>, <<Bind("cfg", FALSE)>>,
                          "app", None, <<>>, <<"db">>, <<"sock">>)
          [] c = "web" ->
               Assignment(NoImage, <<>>, <<>>, <<Bind("www", TRUE)>>, None, None,
                          <<Link("app", "backend")>>, <<"db", "app">>, <<>>)],
     volumes |-> [a \in {"cfg", "www", "sock"} |->
                    CASE a = "cfg" -> "/etc/app" [] a = "www" -> "/srv/www" [] a = "sock" -> "/run/app"],
     host |-> [a \in {"cfg", "www"} |->
                 IF a = "cfg" THEN HostPerInstance({"i1"}, [i \in {"i1"} |-> "/host/app1"])
                 ELSE HostSingle("/host/www")]]

\* x and y use each other; z uses x.
MapC ==
    [name |-> "c",
     order |-> <<"x", "y", "z">>,
     cfg |-> [c \in {"x", "y", "z"} |->
        IF c = "x"
        THEN Assignment(NoImage, <<>>, <<>>, <<>>, None, None, <<>>, <<"y">>, <<>>)
        ELSE Assignment(NoImage, <<>>, <<>>, <<>>, None, None, <<>>, <<"x">>, <<>>)],
     volumes |-> [a \in {} |-> None],
     host |-> [a \in {} |-> None]]

MapNames == {"a", "b", "c"}

MapOf(n) == CASE n = "a" -> MapA [] n = "b" -> MapB [] n = "c" -> MapC

Containers(m) == DOMAIN m.cfg

\* ContainerMap.cname: the map's name, the container and the instance, joined.
cname(m, container, instance) ==
    IF instance = None THEN <<m.name, container>> ELSE <<m.name, container, instance>>

\* ------------------------------------------------------ dependency resolver
\* What a container references: uses, attaches, links_to, in this order.
Relational(a) ==
    a.uses \o a.attaches \o [i \in 1..Len(a.links_to) |-> a.links_to[i].container]

\* Forward edges: the containers of the map a container references.
ForwardGraph(m) ==
    [c \in Containers(m) |-> Dedup(SelectIn(Relational(m.cfg[c]), Containers(m)))]

\* update_backward: the inverse graph, who depends on me.
BackwardGraph(m) ==
    [c \in Containers(m) |->
        SelectSeq(m.order, LAMBDA d : c \in Range(ForwardGraph(m)[d]))]

\* Depth-first traversal: a container already visited is skipped, one met
\* again on the active path is a cycle.  post lists each container after
\* everything it leads to.
RECURSIVE VisitAll(_, _, _, _)
VisitAll(g, nodes, path, acc) ==
    IF nodes = <<>> \/ ~acc.ok THEN acc
    ELSE LET n == Head(nodes)
             sub == VisitAll(g, g[n], path \cup {n}, acc)
             here == IF n \in path THEN [acc EXCEPT !.ok = FALSE]
                     ELSE IF n \in Range(acc.post) THEN acc
                     ELSE IF sub.ok THEN [sub EXCEPT !.post = Append(@, n)]
                     ELSE sub
         IN VisitAll(g, Tail(nodes), path, here)

\* get_dependencies: the transitive dependencies, container excluded, in the
\* order whose reversal has every prerequisite before what depends on it.
get_dependencies(g, container) ==
    LET r == VisitAll(g, g[container], {container}, [ok |-> TRUE, post |-> <<>>])
    IN [ok |-> r.ok, deps |-> IF r.ok THEN Reverse(r.post) ELSE <<>>]

\* ------------------------------------------------------------------ engine
\* The state an operation runs on and leaves behind:
\*   names, tags   the engine's caches (_container_names, _image_tags);
\*                 loaded is FALSE while the attribute is None
\*   rt, run, imgs the runtime's named containers, the running ones, its image tags
\*   helpers       disposable containers the runtime holds
\*   log, k        the runtime calls issued by the operation, and their number
\*   err           the exception that is propagating, kind "ok" when none is
\*   fail          the outcome the runtime gives each call of the operation
\*   ret           what the operation has collected to return
NoError == [kind |-> "ok", at |-> 0]

NoArgs ==
    [image |-> NoImage, volumes |-> <<>>, user |-> None, environment |-> None,
     binds |-> EmptyDict, volumes_from |-> <<>>, links |-> EmptyDict,
     command |-> None, opts |-> None]

\* A logged call: the client method, the container (or alias owner) it is
\* issued for, the physical name, the arguments, the runtime's answer, the
\* number of the call (0: no runtime call), and the runtime state and the
\* image-tag cache it met.
Entry(call, c, name, args) ==
    [call |-> call, c |-> c, name |-> name, args |-> args,
     ok |-> "ok", k |-> 0, rt |-> {}, run |-> {},
     tags |-> [loaded |-> FALSE, set |-> {}], imgs |-> {}]

Helper == <<"#tmp">>

Raise(s, kind) == IF s.err.kind # "ok" THEN s ELSE [s EXCEPT !.err = [kind |-> kind, at |-> s.k]]

Failed(s) == s.err.kind # "ok"

\* One call of the runtime client: it is logged with the runtime state it
\* meets; it fails with an API error when the runtime says so, and has its
\* effect (state t) otherwise.  Nothing is called while an exception propagates.
Call(s, e, t) ==
    IF Failed(s) THEN s
    ELSE LET k == s.k + 1
             bad == k = s.fail.at
             entry == [e EXCEPT !.ok = IF bad THEN "error" ELSE "ok", !.k = k,
                                !.rt = s.rt, !.run = s.run,
                           !.tags = s.tags, !.imgs = s.imgs]
         IN IF bad
            THEN [s EXCEPT !.k = k, !.log = Append(@, entry),
                           !.err = [kind |-> "APIError", at |-> k]]
            ELSE [t EXCEPT !.k = k, !.log = Append(s.log, entry)]

\* client.push_log: a diagnostic sink, it reaches no runtime.
push_log(s, c, name, msg) ==
    IF Failed(s) THEN s
    ELSE [s EXCEPT !.log = Append(@, [Entry("push_log", c, name, [NoArgs EXCEPT !.command = msg])
                                       EXCEPT !.rt = s.rt, !.run = s.run,
                           !.tags = s.tags, !.imgs = s.imgs])]

\* _get: an unknown container has no assignments
_get(s, m, container) ==
    IF container \notin Containers(m) THEN Raise(s, "ValueError") ELSE s

_cname(m, container, instance) == cname(m, container, instance)

_check_refresh_containers(s, force) ==
    IF force \/ ~s.names.loaded
    THEN Call(s, Entry("get_container_names", None, <<>>, NoArgs),
              [s EXCEPT !.names = [loaded |-> TRUE, set |-> s.rt]])
    ELSE s

_check_refresh_images(s, force) ==
    IF force \/ ~s.tags.loaded
    THEN Call(s, Entry("get_image_tags", None, <<>>, NoArgs),
              [s EXCEPT !.tags = [loaded |-> TRUE, set |-> s.imgs]])
    ELSE s

_get_container_names(s) == _check_refresh_containers(s, FALSE)

_get_image_tags(s) == _check_refresh_images(s, FALSE)

\* image.partition(':') and the name looked up in the tag cache: with a tag
\* it is the bare image name, without one it is "name:latest".
ImageLookupName(image) ==
    IF image.tag # "" THEN Image(image.name, "") ELSE Image(image.name, "latest")

\* what the runtime holds after import_image(image, tag)
Imported(image) == Image(image.name, IF image.tag = "" THEN "latest" ELSE image.tag)

\* _check_image: the state after it, and whether it imported
_check_image(s, image) ==
    Then(_get_image_tags(s), LAMBDA s1 :
      IF Failed(s1) \/ ImageLookupName(image) \in s1.tags.set
      THEN [s |-> s1, imported |-> FALSE]
      ELSE Then(Call(s1, Entry("import_image", None, <<>>, [NoArgs EXCEPT !.image = image]),
                     [s1 EXCEPT !.imgs = @ \cup {Imported(image)}]), LAMBDA s2 :
             [s |-> s2, imported |-> ~Failed(s2)]))

\* any(_check_image(image) for image in images): it stops at the first import
RECURSIVE AnyCheckImage(_, _)
AnyCheckImage(s, images) ==
    IF images = <<>> \/ Failed(s) THEN [s |-> s, imported |-> FALSE]
    ELSE Then(_check_image(s, Head(images)), LAMBDA r :
           IF r.imported \/ Failed(r.s) THEN r ELSE AnyCheckImage(r.s, Tail(images)))

_ensure_images(s, images) ==
    Then(AnyCheckImage(s, images), LAMBDA r :
      IF r.imported THEN _check_refresh_images(r.s, TRUE) ELSE r.s)

\* the created name is not remembered
CacheAdd_forgotten(s, name) ==
    IF Failed(s) THEN s
    ELSE IF ~s.names.loaded THEN Raise(s, "AttributeError")
    ELSE s

\* _container_names.add(name)
CacheAdd(s, name) ==
    IF Failed(s) THEN s
    ELSE IF ~s.names.loaded THEN Raise(s, "AttributeError")
    ELSE [s EXCEPT !.names.set = @ \cup {name}]

\* the runtime's refusal to create is passed over
_create_named_container_lenient(s, c, image, name, args) ==
    Then(Call(s, Entry("create_container", c, name, [args EXCEPT !.image = image]),
              [s EXCEPT !.rt = @ \cup {name}]), LAMBDA s1 :
      IF Failed(s1) THEN [s1 EXCEPT !.err = NoError] ELSE CacheAdd(s1, name))

_create_named_container(s, c, image, name, args) ==
    Then(Call(s, Entry("create_container", c, name, [args EXCEPT !.image = image]),
              [s EXCEPT !.rt = @ \cup {name}]), LAMBDA s1 :
      CacheAdd(s1, name))

\* the removed name is kept in the cache
_remove_container_kept(s, c, name) ==
    IF Failed(s) THEN s
    ELSE IF ~s.names.loaded THEN Raise(s, "AttributeError")
    ELSE IF name \notin s.names.set THEN Raise(s, "KeyError")
    ELSE Call(s, Entry("remove_container", c, name, NoArgs),
              [s EXCEPT !.rt = @ \ {name}, !.run = @ \ {name}])

\* _remove_container: the name leaves the cache, then the runtime is called
_remove_container(s, c, name) ==
    IF Failed(s) THEN s
    ELSE IF ~s.names.loaded THEN Raise(s, "AttributeError")
    ELSE IF name \notin s.names.set THEN Raise(s, "KeyError")
    ELSE Then([s EXCEPT !.names.set = @ \ {name}], LAMBDA s1 :
           Call(s1, Entry("remove_container", c, name, NoArgs),
                [s1 EXCEPT !.rt = @ \ {name}, !.run = @ \ {name}]))

\* the finally clause of _run_and_dispose: the helper is removed whatever
\* happened to it; an error of the removal replaces the one that was propagating
DisposeHelper(s, c) ==
    LET k == s.k + 1
        bad == k = s.fail.at \/ (Failed(s) /\ s.fail.cleanup)
        entry == [Entry("remove_container", c, Helper, NoArgs)
                    EXCEPT !.ok = IF bad THEN "error" ELSE "ok", !.k = k,
                           !.rt = s.rt, !.run = s.run,
                           !.tags = s.tags, !.imgs = s.imgs]
    IN [s EXCEPT !.k = k, !.log = Append(@, entry),
                 !.helpers = IF bad THEN @ ELSE @ - 1,
                 !.err = IF bad THEN [kind |-> "APIError", at |-> k] ELSE @]

\* _run_and_dispose: the helper is created, then started, waited for and its
\* log pushed, and removed at the end.
_run_and_dispose(s, c, coreimage, command, user, volumes_from) ==
    Then(Call(s, Entry("create_container", c, Helper,
                       [NoArgs EXCEPT !.image = coreimage, !.command = command, !.user = user]),
              [s EXCEPT !.helpers = @ + 1]), LAMBDA s1 :
      IF Failed(s1) THEN s1
      ELSE
    Then(Call(s1, Entry("start", c, Helper, [NoArgs EXCEPT !.volumes_from = volumes_from]), s1),
         LAMBDA s2 :
    Then(Call(s2, Entry("wait", c, Helper, NoArgs), s2), LAMBDA s3 :
    Then(Call(s3, Entry("push_container_logs", c, Helper, NoArgs), s3), LAMBDA s4 :
      DisposeHelper(s4, c)))))

_adjust_permissions(s, c, coreimage, container_name, path, user, permissions) ==
    IF Failed(s) THEN s
    ELSE IF user = None /\ permissions = None THEN s
    ELSE
    Then(IF user # None
         THEN Then(push_log(s, c, container_name, "Adjusting user"), LAMBDA p :
                _run_and_dispose(p, c, coreimage, "chown", "root", <<container_name>>))
         ELSE s, LAMBDA s1 :
      IF permissions # None
      THEN Then(push_log(s1, c, container_name, "Adjusting permissions"), LAMBDA p :
             _run_and_dispose(p, c, coreimage, "chmod", "root", <<container_name>>))
      ELSE s1)

\* _get_volume_path: None stands for the ValueError of an alias without a path
_get_volume_path(m, alias) ==
    IF alias \in DOMAIN m.volumes /\ m.volumes[alias] # None THEN m.volumes[alias] ELSE None

\* the volume container named after its owner as well as the alias
_get_or_create_volume_per_owner(s, m, c, baseimage, coreimage, alias, user, permissions) ==
    LET c_name == <<m.name, alias, c>>
        path == _get_volume_path(m, alias)
    IN
    Then(_get_container_names(s), LAMBDA s1 :
      IF Failed(s1) THEN s1
      ELSE IF c_name \in s1.names.set THEN push_log(s1, c, c_name, "exists")
      ELSE IF path = None THEN Raise(s1, "ValueError")
      ELSE
    Then(_create_named_container(s1, c, baseimage, c_name,
                                 [NoArgs EXCEPT !.volumes = <<path>>, !.user = user]), LAMBDA s2 :
    Then(Call(s2, Entry("start", c, c_name, NoArgs), [s2 EXCEPT !.run = @ \cup {c_name}]),
         LAMBDA s3 :
      _adjust_permissions(s3, c, coreimage, c_name, path, user, permissions))))

_get_or_create_volume(s, m, c, baseimage, coreimage, alias, user, permissions) ==
    LET c_name == _cname(m, alias, None)
        path == _get_volume_path(m, alias)
    IN
    Then(_get_container_names(s), LAMBDA s1 :
      IF Failed(s1) THEN s1
      ELSE IF c_name \in s1.names.set THEN push_log(s1, c, c_name, "exists")
      ELSE IF path = None THEN Raise(s1, "ValueError")
      ELSE
    Then(_create_named_container(s1, c, baseimage, c_name,
                                 [NoArgs EXCEPT !.volumes = <<path>>, !.user = user]), LAMBDA s2 :
    Then(Call(s2, Entry("start", c, c_name, NoArgs), [s2 EXCEPT !.run = @ \cup {c_name}]),
         LAMBDA s3 :
      _adjust_permissions(s3, c, coreimage, c_name, path, user, permissions))))

\* dict(... for a in assignment.attaches)
RECURSIVE CreateVolumes(_, _, _, _, _, _)
CreateVolumes(s, m, c, baseimage, coreimage, aliases) ==
    IF aliases = <<>> \/ Failed(s) THEN s
    ELSE Then(_get_or_create_volume(s, m, c, baseimage, coreimage, Head(aliases),
                                    m.cfg[c].user, m.cfg[c].permissions), LAMBDA s1 :
           CreateVolumes(s1, m, c, baseimage, coreimage, Tail(aliases)))

create_attached_volumes(s, m, container, baseimage, coreimage) ==
    Then(_get(s, m, container), LAMBDA s1 :
      IF Failed(s1) THEN s1
      ELSE Then(_ensure_images(s1, <<baseimage, coreimage>>), LAMBDA s2 :
             CreateVolumes(s2, m, container, baseimage, coreimage, m.cfg[container].attaches)))

\* x or y, for sequences and for scalars
OrSeq(x, y) == IF x # <<>> THEN x ELSE y

OrVal(x, y) == IF x # None THEN x ELSE y

\* the paths of the bind aliases; None stands for the ValueError of a missing one
BindPaths(m, binds) == [i \in 1..Len(binds) |-> _get_volume_path(m, binds[i].volume)]

\* the loop returning only the instances it created
RECURSIVE InstanceLoop_created_only(_, _, _, _, _, _)
InstanceLoop_created_only(s, m, container, image, c_instances, args) ==
    IF c_instances = <<>> \/ Failed(s) THEN s
    ELSE LET c_name == _cname(m, container, Head(c_instances))
         IN
         Then(_get_container_names(s), LAMBDA s1 :
           IF Failed(s1) THEN s1
           ELSE
         Then(IF c_name \notin s1.names.set
              THEN Then(_create_named_container(s1, container, image, c_name, args), LAMBDA s2 :
                     IF Failed(s2) THEN s2
                     ELSE [CacheAdd(s2, c_name) EXCEPT !.ret = Append(@, <<container, c_name>>)])
              ELSE push_log(s1, container, c_name, "exists"), LAMBDA s3 :
           IF Failed(s3) THEN s3
           ELSE InstanceLoop_created_only(s3, m, container, image, Tail(c_instances), args)))

\* the loop of _get_instance_containers over the instances
RECURSIVE InstanceLoop(_, _, _, _, _, _)
InstanceLoop(s, m, container, image, c_instances, args) ==
    IF c_instances = <<>> \/ Failed(s) THEN s
    ELSE LET c_name == _cname(m, container, Head(c_instances))
         IN
         Then(_get_container_names(s), LAMBDA s1 :
           IF Failed(s1) THEN s1
           ELSE
         Then(IF c_name \notin s1.names.set
              THEN Then(_create_named_container(s1, container, image, c_name, args), LAMBDA s2 :
                     CacheAdd(s2, c_name))
              ELSE push_log(s1, container, c_name, "exists"), LAMBDA s3 :
           IF Failed(s3) THEN s3
           ELSE InstanceLoop([s3 EXCEPT !.ret = Append(@, <<container, c_name>>)],
                             m, container, image, Tail(c_instances), args)))

_get_instance_containers(s, m, container, instances, volumes, user, environment, opts) ==
    IF Failed(s) THEN s
    ELSE IF container \notin Containers(m) THEN _get(s, m, container)
    ELSE
    LET assignments == m.cfg[container]
        c_instances == OrSeq(instances, OrSeq(assignments.instances, <<None>>))
        image == IF assignments.image # NoImage THEN assignments.image ELSE Image(container, "")
        paths == BindPaths(m, assignments.binds)
        shared_volumes == volumes \o assignments.shares \o paths
        c_user == OrVal(user, assignments.user)
        c_environment == OrVal(environment, assignments.environment)
        args == [NoArgs EXCEPT !.volumes = shared_volumes, !.user = c_user,
                               !.environment = c_environment, !.opts = opts]
    IN IF None \in Range(paths) THEN Raise(s, "ValueError")
       ELSE Then(_ensure_images(s, <<image>>), LAMBDA s1 :
              Then(args, LAMBDA a : InstanceLoop(s1, m, container, image, c_instances, a)))

\* _get_host_binds(instance), collected into a dict; not ok when an alias has no path
RECURSIVE HostBinds(_, _, _, _)
HostBinds(m, binds, instance, d) ==
    IF binds = <<>> THEN [ok |-> TRUE, d |-> d]
    ELSE LET alias == Head(binds).volume
             path == _get_volume_path(m, alias)
             bind == [bind |-> path, ro |-> ~Head(binds).rw]
             share == m.host[alias]
             d1 == IF alias \notin DOMAIN m.host THEN d
                   ELSE IF share.kind = "dict"
                        THEN IF instance # None
                             THEN DictPut(d, IF instance \in share.at THEN share.paths[instance]
                                             ELSE None, bind)
                             ELSE d
                        ELSE DictPut(d, share.path, bind)
         IN IF path = None THEN [ok |-> FALSE, d |-> d]
            ELSE Then(d1, LAMBDA v : HostBinds(m, Tail(binds), instance, v))

RECURSIVE StartLoop(_, _, _, _, _, _, _, _)
StartLoop(s, m, container, c_instances, binds, c_volumes_from, c_links, opts) ==
    IF c_instances = <<>> \/ Failed(s) THEN s
    ELSE LET i == Head(c_instances)
             c_name == _cname(m, container, i)
         IN
         Then(HostBinds(m, m.cfg[container].binds, i, EmptyDict), LAMBDA hb :
           IF ~hb.ok THEN Raise(s, "ValueError")
           ELSE
         Then(Call(s, Entry("start", container, c_name,
                            [NoArgs EXCEPT
                               !.binds = IF binds.keys # {} THEN DictUpdate(hb.d, binds) ELSE hb.d,
                               !.volumes_from = c_volumes_from, !.links = c_links, !.opts = opts]),
                   [s EXCEPT !.run = @ \cup ({c_name} \cap s.rt)]), LAMBDA s1 :
           StartLoop(s1, m, container, Tail(c_instances), binds, c_volumes_from, c_links, opts)))

RECURSIVE LinksDict(_, _, _)
LinksDict(m, links_to, d) ==
    IF links_to = <<>> THEN d
    ELSE Then(DictPut(d, _cname(m, Head(links_to).container, None), Head(links_to).alias),
              LAMBDA v : LinksDict(m, Tail(links_to), v))

_start_instance_containers(s, m, container, instances, binds, volumes_from, opts) ==
    IF Failed(s) THEN s
    ELSE IF container \notin Containers(m) THEN _get(s, m, container)
    ELSE
    LET assignments == m.cfg[container]
        c_instances == OrSeq(instances, OrSeq(assignments.instances, <<None>>))
        names == assignments.uses \o assignments.attaches
        used_volumes == [i \in 1..Len(names) |-> _cname(m, names[i], None)]
    IN Then(volumes_from \o used_volumes, LAMBDA c_volumes_from :
         Then(LinksDict(m, assignments.links_to, EmptyDict), LAMBDA c_links :
           StartLoop(s, m, container, c_instances, binds, c_volumes_from, c_links, opts)))

\* create: _create_dependent_containers for each dependency
RECURSIVE CreateDependencies(_, _, _, _, _)
CreateDependencies(s, m, deps, autocreate_attached, autocreate_baseimage) ==
    IF deps = <<>> \/ Failed(s) THEN s
    ELSE
    Then(IF autocreate_attached
         THEN create_attached_volumes(s, m, Head(deps), autocreate_baseimage, DEFAULT_COREIMAGE)
         ELSE s, LAMBDA s1 :
    Then(_get_instance_containers(s1, m, Head(deps), <<>>, <<>>, None, None, None), LAMBDA s2 :
      CreateDependencies(s2, m, Tail(deps), autocreate_attached, autocreate_baseimage)))

\* _create_main_container
CreateMain(s, m, container, instances, autocreate_attached, autocreate_baseimage, kw) ==
    Then(IF autocreate_attached
         THEN create_attached_volumes(s, m, container, autocreate_baseimage, DEFAULT_COREIMAGE)
         ELSE s, LAMBDA s1 :
      _get_instance_containers(s1, m, container, instances, kw.volumes, kw.user,
                               kw.environment, kw.opts))
\* create walking the dependency list as the resolver returns it
create_unreversed(s, m, container, instances, autocreate_dependencies, autocreate_attached, autocreate_baseimage, kw) ==
    IF ~autocreate_dependencies
    THEN CreateMain(s, m, container, instances, autocreate_attached, autocreate_baseimage, kw)
    ELSE Then(get_dependencies(ForwardGraph(m), container), LAMBDA dependencies :
           IF ~dependencies.ok THEN Raise(s, "CyclicDependencyError")
           ELSE Then(CreateDependencies(s, m, dependencies.deps,
                                        autocreate_attached, autocreate_baseimage), LAMBDA s1 :
                  CreateMain(s1, m, container, instances, autocreate_attached,
                             autocreate_baseimage, kw)))

\* create going on when the resolver has met a cycle
create_unchecked(s, m, container, instances, autocreate_dependencies, autocreate_attached, autocreate_baseimage, kw) ==
    IF ~autocreate_dependencies
    THEN CreateMain(s, m, container, instances, autocreate_attached, autocreate_baseimage, kw)
    ELSE Then(get_dependencies(ForwardGraph(m), container), LAMBDA dependencies :
           Then(CreateDependencies(s, m, Reverse(dependencies.deps),
                                   autocreate_attached, autocreate_baseimage), LAMBDA s1 :
             CreateMain(s1, m, container, instances, autocreate_attached,
                        autocreate_baseimage, kw)))

\* kw: the keyword arguments volumes, user, environment, and the rest (opts)
create(s, m, container, instances, autocreate_dependencies, autocreate_attached, autocreate_baseimage, kw) ==
    IF ~autocreate_dependencies
    THEN CreateMain(s, m, container, instances, autocreate_attached, autocreate_baseimage, kw)
    ELSE Then(get_dependencies(ForwardGraph(m), container), LAMBDA dependencies :
           IF ~dependencies.ok THEN Raise(s, "CyclicDependencyError")
           ELSE Then(CreateDependencies(s, m, Reverse(dependencies.deps),
                                        autocreate_attached, autocreate_baseimage), LAMBDA s1 :
                  CreateMain(s1, m, container, instances, autocreate_attached,
                             autocreate_baseimage, kw)))

\* the dependencies started with what the caller gave for the target
RECURSIVE StartDependencies_forwarding(_, _, _, _, _)
StartDependencies_forwarding(s, m, deps, instances, kw) ==
    IF deps = <<>> \/ Failed(s) THEN s
    ELSE Then(_start_instance_containers(s, m, Head(deps), instances, kw.binds,
                                         kw.volumes_from, kw.opts),
              LAMBDA s1 : StartDependencies_forwarding(s1, m, Tail(deps), instances, kw))

RECURSIVE StartDependencies(_, _, _)
StartDependencies(s, m, deps) ==
    IF deps = <<>> \/ Failed(s) THEN s
    ELSE Then(_start_instance_containers(s, m, Head(deps), <<>>, EmptyDict, <<>>, None),
              LAMBDA s1 : StartDependencies(s1, m, Tail(deps)))
\* start walking the dependency list as the resolver returns it
start_unreversed(s, m, container, instances, autostart_dependencies, kw) ==
    IF ~autostart_dependencies
    THEN _start_instance_containers(s, m, container, instances, kw.binds, kw.volumes_from, kw.opts)
    ELSE Then(get_dependencies(ForwardGraph(m), container), LAMBDA dependencies :
           IF ~dependencies.ok THEN Raise(s, "CyclicDependencyError")
           ELSE Then(StartDependencies(s, m, dependencies.deps), LAMBDA s1 :
                  _start_instance_containers(s1, m, container, instances, kw.binds,
                                             kw.volumes_from, kw.opts)))

\* start handing its overrides down to the dependencies
start_forwarding(s, m, container, instances, autostart_dependencies, kw) ==
    IF ~autostart_dependencies
    THEN _start_instance_containers(s, m, container, instances, kw.binds, kw.volumes_from, kw.opts)
    ELSE Then(get_dependencies(ForwardGraph(m), container), LAMBDA dependencies :
           IF ~dependencies.ok THEN Raise(s, "CyclicDependencyError")
           ELSE Then(StartDependencies_forwarding(s, m, Reverse(dependencies.deps),
                                                  instances, kw), LAMBDA s1 :
                  _start_instance_containers(s1, m, container, instances, kw.binds,
                                             kw.volumes_from, kw.opts)))

\* kw: the keyword arguments binds, volumes_from, and the rest (opts)
start(s, m, container, instances, autostart_dependencies, kw) ==
    IF ~autostart_dependencies
    THEN _start_instance_containers(s, m, container, instances, kw.binds, kw.volumes_from, kw.opts)
    ELSE Then(get_dependencies(ForwardGraph(m), container), LAMBDA dependencies :
           IF ~dependencies.ok THEN Raise(s, "CyclicDependencyError")
           ELSE Then(StartDependencies(s, m, Reverse(dependencies.deps)), LAMBDA s1 :
                  _start_instance_containers(s1, m, container, instances, kw.binds,
                                             kw.volumes_from, kw.opts)))

\* client.stop(lc_name): the runtime's answer to the k-th call is fail.stop[k].
\* A 404 is passed over, any other API error is logged; neither is raised.
StopCall(s, c, lc_name, opts) ==
    IF Failed(s) THEN s
    ELSE
    LET k == s.k + 1
        answer == IF k \in 1..Len(s.fail.stop) THEN s.fail.stop[k] ELSE "ok"
        entry == [Entry("stop", c, lc_name, [NoArgs EXCEPT !.opts = opts])
                    EXCEPT !.ok = answer, !.k = k, !.rt = s.rt, !.run = s.run,
                           !.tags = s.tags, !.imgs = s.imgs]
    IN Then([s EXCEPT !.k = k, !.log = Append(@, entry),
                      !.run = IF answer = "ok" THEN @ \ {lc_name} ELSE @], LAMBDA s1 :
         IF answer = "500" THEN push_log(s1, c, lc_name, "Failed to stop") ELSE s1)

RECURSIVE StopLoop(_, _, _, _, _)
StopLoop(s, m, c_name, lc_instances, opts) ==
    IF lc_instances = <<>> \/ Failed(s) THEN s
    ELSE Then(StopCall(s, c_name, _cname(m, c_name, Head(lc_instances)), opts), LAMBDA s1 :
           StopLoop(s1, m, c_name, Tail(lc_instances), opts))

\* _stop_container(c_name, c_instances=None) called with **kwargs: it takes
\* no further keyword, so any that is passed on is a TypeError of the call.
_stop_container(s, m, c_name, c_instances, kwargs) ==
    IF Failed(s) THEN s
    ELSE IF kwargs # None THEN Raise(s, "TypeError")
    ELSE IF c_instances # <<>> THEN StopLoop(s, m, c_name, c_instances, kwargs)
    ELSE IF c_name \notin Containers(m) THEN _get(s, m, c_name)
    ELSE StopLoop(s, m, c_name, OrSeq(m.cfg[c_name].instances, <<None>>), kwargs)

RECURSIVE StopDependents(_, _, _, _)
StopDependents(s, m, deps, kwargs) ==
    IF deps = <<>> \/ Failed(s) THEN s
    ELSE Then(_stop_container(s, m, Head(deps), <<>>, kwargs), LAMBDA s1 :
           StopDependents(s1, m, Tail(deps), kwargs))
\* stop resolving over the forward graph: it stops what the container needs
stop_forward(s, m, container, instances, autostop_dependent, kwargs) ==
    IF ~autostop_dependent THEN _stop_container(s, m, container, instances, kwargs)
    ELSE Then(get_dependencies(ForwardGraph(m), container), LAMBDA dependencies :
           IF ~dependencies.ok THEN Raise(s, "CyclicDependencyError")
           ELSE Then(StopDependents(s, m, Reverse(dependencies.deps), kwargs), LAMBDA s1 :
                  _stop_container(s1, m, container, instances, kwargs)))

stop(s, m, container, instances, autostop_dependent, kwargs) ==
    IF ~autostop_dependent THEN _stop_container(s, m, container, instances, kwargs)
    ELSE Then(get_dependencies(BackwardGraph(m), container), LAMBDA dependencies :
           IF ~dependencies.ok THEN Raise(s, "CyclicDependencyError")
           ELSE Then(StopDependents(s, m, Reverse(dependencies.deps), kwargs), LAMBDA s1 :
                  _stop_container(s1, m, container, instances, kwargs)))

RECURSIVE RemoveLoop(_, _, _, _)
RemoveLoop(s, m, container, c_instances) ==
    IF c_instances = <<>> \/ Failed(s) THEN s
    ELSE Then(_remove_container(s, container, _cname(m, container, Head(c_instances))),
              LAMBDA s1 : RemoveLoop(s1, m, container, Tail(c_instances)))

remove(s, m, container, instances) ==
    RemoveLoop(s, m, container, OrSeq(instances, <<None>>))

wait(s, m, container, instance, log) ==
    Then(Call(s, Entry("wait", container, _cname(m, container, instance), NoArgs), s), LAMBDA s1 :
      IF log
      THEN Call(s1, Entry("push_container_logs", container, _cname(m, container, instance), NoArgs), s1)
      ELSE s1)

wait_and_remove(s, m, container, instance, log) ==
    Then(wait(s, m, container, instance, log), LAMBDA s1 :
      remove(s1, m, container, <<instance>>))

refresh_names(s) ==
    Then(_check_refresh_images(s, TRUE), LAMBDA s1 : _check_refresh_containers(s1, TRUE))

\* the client setter: both caches are dropped
set_client(s) ==
    [s EXCEPT !.names = [loaded |-> FALSE, set |-> {}], !.tags = [loaded |-> FALSE, set |-> {}]]

\* ------------------------------------------------------------------- state
VARIABLES
    map,               \* the container map the engine reflects (its name)
    container_names,   \* _container_names
    image_tags,        \* _image_tags
    rt_containers,     \* the runtime: named containers that exist
    rt_running,        \*              those that are running
    rt_images,         \*              image tags
    rt_helpers,        \*              disposable containers left behind
    rt_adjusted,       \*              volume containers whose ownership or
                       \*              permission helper has run to completion
    last,              \* the operation that has just run: arguments, calls issued,
                       \* outcome; op "none" once its caller has taken the result
    fresh,             \* the container X when all that has happened is one create(X),
                       \* with automatic dependencies and attached volumes, that
                       \* succeeded on a runtime without containers; None otherwise
    issued,            \* create_container calls per name issued by create since
                       \* the start or the last remove, refresh or client rebinding
    created,           \* those of them that succeeded
    ops                \* operations performed

vars == <<map, container_names, image_tags, rt_containers, rt_running, rt_images,
          rt_helpers, rt_adjusted, last, fresh, issued, created, ops>>

M == MapOf(map)

NotLoaded == [loaded |-> FALSE, set |-> {}]

NoFail == [at |-> 0, cleanup |-> FALSE, stop |-> <<>>]

\* the state an operation starts on
Begin(fail) ==
    [names |-> container_names, tags |-> image_tags, rt |-> rt_containers,
     run |-> rt_running, imgs |-> rt_images, helpers |-> rt_helpers,
     log |-> <<>>, k |-> 0, err |-> NoError, fail |-> fail, ret |-> <<>>]

\* the images a map needs, as the runtime tags them
AllImages(m) ==
    {Imported(DEFAULT_BASEIMAGE), Imported(DEFAULT_COREIMAGE)} \cup
    {Imported(IF m.cfg[c].image # NoImage THEN m.cfg[c].image ELSE Image(c, "")) : c \in Containers(m)}

\* what an operation met: the caches, the runtime's containers, fresh
NoBefore ==
    [names |-> NotLoaded, tags |-> NotLoaded, rt |-> {}, run |-> {}, imgs |-> {},
     helpers |-> 0, fresh |-> None]

NoLast ==
    [op |-> "none", container |-> None, args |-> None, fail |-> NoFail, before |-> NoBefore,
     log |-> <<>>, err |-> NoError, ret |-> <<>>]

Init ==
    /\ map \in MapNames
    /\ container_names = NotLoaded
    /\ image_tags = NotLoaded
    /\ rt_containers \in {{}, {cname(M, M.order[1], None)}}
    /\ rt_running = {}
    /\ rt_images \in {{}, AllImages(M)}
    /\ rt_helpers = 0
    /\ rt_adjusted = {}
    /\ last = NoLast
    /\ fresh = None
    /\ issued = EmptyBag
    /\ created = EmptyBag
    /\ ops = 0

\* the runtime's answers to a fail-fast operation whose undisturbed run is r0:
\* no failure, or the failure of one of its calls; when that call is in the
\* body of _run_and_dispose, the helper's removal may fail as well
InHelperBody(log, a) ==
    \E i \in 1..Len(log) :
        /\ log[i].k = a
        /\ log[i].name = Helper
        /\ log[i].call \in {"start", "wait", "push_container_logs"}

Failures(r0) ==
    {NoFail} \cup
    {[at |-> a, cleanup |-> FALSE, stop |-> <<>>] : a \in 1..r0.k} \cup
    {[at |-> a, cleanup |-> TRUE, stop |-> <<>>] :
        a \in {b \in 1..r0.k : InHelperBody(r0.log, b)}}

\* the names of the create_container calls of a log, as a bag
RECURSIVE CreateCalls(_, _)
CreateCalls(log, okOnly) ==
    IF log = <<>> THEN EmptyBag
    ELSE LET e == Head(log)
             counts == e.call = "create_container" /\ e.name # Helper /\ (okOnly => e.ok = "ok")
         IN IF counts THEN SetToBag({e.name}) (+) CreateCalls(Tail(log), okOnly)
            ELSE CreateCalls(Tail(log), okOnly)

\* the volume containers a helper of the log was started on and waited for
\* (_run_and_dispose: create_container, start with volumes_from, wait)
Adjusted(log) ==
    {log[i].args.volumes_from[1] :
        i \in {j \in 1..(Len(log) - 1) :
                  /\ log[j].call = "start" /\ log[j].name = Helper /\ log[j].ok = "ok"
                  /\ log[j + 1].call = "wait" /\ log[j + 1].name = Helper
                  /\ log[j + 1].ok = "ok"}}

\* the operation has run to r: the engine and the runtime are as it left them
Finish(r, op, container, args) ==
    /\ r.helpers <= MaxHelpers
    /\ ops' = ops + 1
    /\ container_names' = r.names
    /\ image_tags' = r.tags
    /\ rt_containers' = r.rt
    /\ rt_running' = r.run
    /\ rt_images' = r.imgs
    /\ rt_helpers' = r.helpers
    /\ rt_adjusted' = (rt_adjusted \cup Adjusted(r.log)) \cap r.rt
    /\ last' = [op |-> op, container |-> container, args |-> args, fail |-> r.fail,
                before |-> [names |-> container_names, tags |-> image_tags,
                            rt |-> rt_containers, run |-> rt_running, imgs |-> rt_images,
                            helpers |-> rt_helpers, fresh |-> fresh],
                log |-> r.log, err |-> r.err, ret |-> IF Failed(r) THEN <<>> ELSE r.ret]
    /\ fresh' = IF /\ op = "create" /\ ops = 0 /\ rt_containers = {} /\ rt_helpers = 0
                   /\ ~Failed(r) /\ args.deps /\ args.attached
                THEN container ELSE None
    /\ issued' = IF op = "create" THEN issued (+) CreateCalls(r.log, FALSE)
                 ELSE IF op \in {"start", "stop", "wait"} THEN issued ELSE EmptyBag
    /\ created' = IF op = "create" THEN created (+) CreateCalls(r.log, TRUE)
                  ELSE IF op \in {"start", "stop", "wait"} THEN created ELSE EmptyBag
    /\ UNCHANGED map

\* ----------------------------------------------------------------- actions
\* the engine is called when the previous call has returned
Ready == last.op = "none" /\ ops < MaxOps

\* the caller takes the result of the operation
Return ==
    /\ last.op # "none"
    /\ last' = NoLast
    /\ UNCHANGED <<map, container_names, image_tags, rt_containers, rt_running, rt_images,
                   rt_helpers, rt_adjusted, fresh, issued, created, ops>>

NoKw == [volumes |-> <<>>, user |-> None, environment |-> None, opts |-> None]

CreateArgs ==
    {[instances |-> <<>>, deps |-> TRUE, attached |-> TRUE, kw |-> NoKw],
     [instances |-> <<>>, deps |-> FALSE, attached |-> TRUE, kw |-> NoKw],
     [instances |-> <<>>, deps |-> TRUE, attached |-> FALSE, kw |-> NoKw],
     [instances |-> <<"i1">>, deps |-> TRUE, attached |-> TRUE,
      kw |-> [volumes |-> <<"/tmp">>, user |-> "admin", environment |-> "DEBUG=1", opts |-> None]]}

Create ==
    /\ Ready
    /\ \E container \in Containers(M), a \in CreateArgs :
        LET run(f) == create(Begin(f), M, container, a.instances, a.deps, a.attached,
                             DEFAULT_BASEIMAGE, a.kw)
        IN \E r0 \in {run(NoFail)} : \E f \in Failures(r0) : \E r \in {run(f)} : Finish(r, "create", container, a)

NoStartKw == [binds |-> EmptyDict, volumes_from |-> <<>>, opts |-> None]

StartArgs ==
    {[instances |-> <<>>, deps |-> TRUE, kw |-> NoStartKw],
     [instances |-> <<>>, deps |-> FALSE, kw |-> NoStartKw],
     [instances |-> <<"i1">>, deps |-> TRUE,
      kw |-> [binds |-> DictPut(EmptyDict, "/host/www", [bind |-> "/mnt", ro |-> TRUE]),
              volumes_from |-> <<<<"other">>>>, opts |-> None]]}

Start ==
    /\ Ready
    /\ \E container \in Containers(M), a \in StartArgs :
        LET run(f) == start(Begin(f), M, container, a.instances, a.deps, a.kw)
        IN \E r0 \in {run(NoFail)} : \E f \in Failures(r0) : \E r \in {run(f)} : Finish(r, "start", container, a)

StopAnswers == {"ok", "404", "500"}

\* the runtime's answers to the k stop calls of an operation: any call may be
\* answered with either error, no two calls with the same one
StopAnswerSeqs(k) ==
    {a \in [1..k -> StopAnswers] :
        \A i, j \in 1..k : (i # j /\ a[i] # "ok") => a[i] # a[j]}

Stop ==
    /\ Ready
    /\ \E container \in Containers(M), instances \in {<<>>, <<"i1">>},
       autostop_dependent \in BOOLEAN, kwargs \in {None, "timeout"} :
        LET run(f) == stop(Begin(f), M, container, instances, autostop_dependent, kwargs)
        IN \E r0 \in {run(NoFail)} : \E answers \in StopAnswerSeqs(r0.k) :
           \E r \in {run([NoFail EXCEPT !.stop = answers])} :
              Finish(r, "stop", container,
                     [instances |-> instances, deps |-> autostop_dependent,
                      kwargs |-> kwargs, answers |-> answers])

Remove ==
    /\ Ready
    /\ \E container \in Containers(M), instances \in {<<>>, <<"i1">>, <<"i1", "i2">>} :
        LET run(f) == remove(Begin(f), M, container, instances)
        IN \E r0 \in {run(NoFail)} : \E f \in Failures(r0) : \E r \in {run(f)} :
              Finish(r, "remove", container, [instances |-> instances])

Wait ==
    /\ Ready
    /\ \E container \in Containers(M), instance \in {None, "i1"}, log \in BOOLEAN :
        LET run(f) == wait(Begin(f), M, container, instance, log)
        IN \E r0 \in {run(NoFail)} : \E f \in Failures(r0) : \E r \in {run(f)} :
              Finish(r, "wait", container, [instance |-> instance, log |-> log])

WaitAndRemove ==
    /\ Ready
    /\ \E container \in Containers(M), instance \in {None, "i1"}, log \in BOOLEAN :
        LET run(f) == wait_and_remove(Begin(f), M, container, instance, log)
        IN \E r0 \in {run(NoFail)} : \E f \in Failures(r0) : \E r \in {run(f)} :
              Finish(r, "wait_and_remove", container, [instance |-> instance, log |-> log])

RefreshNames ==
    /\ Ready
    /\ \E r0 \in {refresh_names(Begin(NoFail))} : \E f \in Failures(r0) :
          \E r \in {refresh_names(Begin(f))} : Finish(r, "refresh_names", None, None)

SetClient == Ready /\ \E r \in {set_client(Begin(NoFail))} : Finish(r, "set_client", None, None)

\* the map setter: the engine reflects another map, its caches stay
SetMap ==
    /\ Ready
    /\ \E value \in MapNames \ {map} : map' = value
    /\ ops' = ops + 1
    /\ last' = [NoLast EXCEPT !.op = "set_map"]
    /\ fresh' = None
    /\ issued' = EmptyBag
    /\ created' = EmptyBag
    /\ UNCHANGED <<container_names, image_tags, rt_containers, rt_running, rt_images,
                   rt_helpers, rt_adjusted>>

Next ==
    \/ Create
    \/ Start
    \/ Stop
    \/ Remove
    \/ Wait
    \/ WaitAndRemove
    \/ RefreshNames
    \/ SetClient
    \/ SetMap
    \/ Return

Spec == Init /\ [][Next]_vars

\* -------------------------------------------------------------- properties
\* The dependence relation of the map, read off the assignments.
DependsOn(a, b) == b \in Range(Relational(M.cfg[a])) \cap Containers(M)

RECURSIVE Closure(_)
Closure(S) ==
    LET T == S \cup {b \in Containers(M) : \E a \in S : DependsOn(a, b)}
    IN IF T = S THEN S ELSE Closure(T)

\* what c transitively depends on, and what transitively depends on c
TransDeps(c) == Closure({b \in Containers(M) : DependsOn(c, b)})
TransDependents(c) == {d \in Containers(M) : c \in TransDeps(d)}
Acyclic == \A c \in Containers(M) : c \notin TransDeps(c)

\* the positions in the last operation's log of the runtime calls `call`
\* for the instances of container c, and for its attached volumes
CallsOf(call, c) ==
    {i \in 1..Len(last.log) :
        /\ last.log[i].call = call
        /\ last.log[i].c = c
        /\ Len(last.log[i].name) >= 2
        /\ last.log[i].name[2] = c}

VolumeCallsOf(call, c) ==
    {i \in 1..Len(last.log) :
        /\ last.log[i].call = call
        /\ last.log[i].c = c
        /\ Len(last.log[i].name) = 2
        /\ last.log[i].name[2] \in Range(M.cfg[c].attaches)}

\* every call of S comes before every call of T
AllBefore(S, T) == \A i \in S, j \in T : i < j

IsInstanceName(n) == Len(n) >= 2 /\ n[2] \in Containers(M)
IsVolumeName(n) == Len(n) >= 2 /\ \E c \in Containers(M) : n[2] \in Range(M.cfg[c].attaches)

\* the create_container calls of the last operation for named containers
NamedCreates ==
    {i \in 1..Len(last.log) :
        last.log[i].call = "create_container" /\ last.log[i].name # Helper}

\* no create_container call is issued for a name the cache held
NoneForCached(names) ==
    last.op = "create" =>
        \A i \in NamedCreates :
            last.log[i].name \in names =>
                ~(last.before.names.loaded /\ last.log[i].name \in last.before.names.set)

\* C4 as stated: across repeated create calls on an unchanged runtime at
\* most one create_container call is ever issued for an instance name.
C4_IssuedOnce ==
    \A n \in BagToSet(issued) : IsInstanceName(n) => CopiesIn(n, issued) <= 1

\* C4 amended: across repeated create calls on an unchanged runtime at most
\* one create_container call succeeds for an instance name, and none is
\* issued for an instance name the name cache already holds; a call the
\* runtime failed is issued again by the next create.
C4_CreatedOnce ==
    /\ \A n \in BagToSet(created) : IsInstanceName(n) => CopiesIn(n, created) <= 1
    /\ NoneForCached({n \in BagToSet(issued) : IsInstanceName(n)})

C4_Witness ==
    /\ last.op = "create" /\ ops = 2 /\ map = "b"
    /\ CopiesIn(<<"b", "app", "i2">>, issued) = 2
    /\ CopiesIn(<<"b", "app", "i2">>, created) = 1
    /\ CopiesIn(<<"b", "app", "i1">>, issued) = 1
    /\ <<"b", "app", "i1">> \in last.before.names.set

\* C5 as stated: at most one create_container call is ever issued for the
\* volume container of an alias.
C5_VolumeIssuedOnce ==
    \A n \in BagToSet(issued) : IsVolumeName(n) => CopiesIn(n, issued) <= 1

\* C5 amended: the volume container of an alias is named by the map and the
\* alias alone, whatever the instances of its owner; across repeated create
\* calls at most one create_container call succeeds for it, and none is
\* issued while the name cache holds it.
C5_VolumeCreatedOnce ==
    /\ last.op = "create" =>
          \A i \in NamedCreates :
              last.log[i].args.image = DEFAULT_BASEIMAGE =>
                  \E alias \in Range(M.cfg[last.log[i].c].attaches) :
                      last.log[i].name = <<M.name, alias>>
    /\ \A n \in BagToSet(created) : IsVolumeName(n) => CopiesIn(n, created) <= 1
    /\ NoneForCached({n \in BagToSet(issued) : IsVolumeName(n)})

C5_Witness ==
    /\ last.op = "create" /\ ops = 2 /\ map = "b" /\ last.container = "app"
    /\ CopiesIn(<<"b", "sock">>, issued) = 2
    /\ CopiesIn(<<"b", "sock">>, created) = 1
    /\ CopiesIn(<<"b", "app", "i1">>, created) = 1
    /\ CopiesIn(<<"b", "app", "i2">>, created) = 1

\* the names of the instances a container's assignment specifies
AssignedNames(c) ==
    {cname(M, c, i) : i \in Range(OrSeq(M.cfg[c].instances, <<None>>))}

\* the log positions at which the runtime answered with an error
Errors == {i \in 1..Len(last.log) : last.log[i].ok = "error"}
FirstError == CHOOSE i \in Errors : \A j \in Errors : i <= j

\* C6: on an acyclic map stop returns without raising, issues exactly one
\* stop call for each targeted instance, and logs a failure exactly for the
\* calls the runtime answered with an error other than not-found.
C6_StopBestEffort ==
    (last.op = "stop" /\ Acyclic) =>
        LET X == last.container
            own == {cname(M, X, i) :
                       i \in Range(OrSeq(last.args.instances, OrSeq(M.cfg[X].instances, <<None>>)))}
            targets == own \cup (IF last.args.deps
                                 THEN UNION {AssignedNames(D) : D \in TransDependents(X)}
                                 ELSE {})
            stops == {i \in 1..Len(last.log) : last.log[i].call = "stop"}
        IN /\ last.err.kind = "ok"
           /\ \A n \in targets : Cardinality({i \in stops : last.log[i].name = n}) = 1
           /\ \A i \in stops : last.log[i].name \in targets
           /\ \A i \in stops :
                 last.log[i].ok = "500" <=>
                     /\ i < Len(last.log)
                     /\ last.log[i + 1].call = "push_log"
                     /\ last.log[i + 1].name = last.log[i].name

\* C7 as stated: when a runtime call fails during create, that call's error
\* reaches the caller, no create_container call follows it, and nothing
\* created earlier in the call is removed from the runtime or the name cache.
C7_FailFastKeepsAll ==
    (last.op = "create" /\ Errors # {}) =>
        /\ last.err = [kind |-> "APIError", at |-> last.log[FirstError].k]
        /\ \A i \in 1..Len(last.log) :
              i > FirstError => last.log[i].call \notin {"create_container", "remove_container"}
        /\ \A i \in NamedCreates :
              last.log[i].ok = "ok" =>
                  last.log[i].name \in rt_containers \cap container_names.set

\* C7 amended: when a runtime call fails during create, no create_container
\* call follows it and every named container created earlier in the call
\* stays in the runtime and in the name cache; the one call that may follow
\* is the removal of the disposable helper whose run was interrupted, and the
\* error that reaches the caller is the failing call's, or that removal's
\* when it fails as well.
C7_FailFastKeepsNamed ==
    (last.op = "create" /\ Errors # {}) =>
        LET after == {i \in 1..Len(last.log) : i > FirstError /\ last.log[i].k > 0}
        IN /\ last.err.kind = "APIError"
           /\ \A i \in after :
                 /\ last.log[i].call = "remove_container"
                 /\ last.log[i].name = Helper
                 /\ last.log[FirstError].name = Helper
                 /\ last.log[FirstError].call \in {"start", "wait", "push_container_logs"}
           /\ Cardinality(after) <= 1
           /\ last.err.at = IF \E i \in after : last.log[i].ok = "error"
                            THEN last.log[Len(last.log)].k
                            ELSE last.log[FirstError].k
           /\ (last.log[FirstError].name = Helper /\ last.log[FirstError].call # "create_container"
                 /\ last.log[FirstError].call # "remove_container") => after # {}
           /\ \A i \in NamedCreates :
                 last.log[i].ok = "ok" =>
                     last.log[i].name \in rt_containers \cap container_names.set

C7_Witness ==
    /\ last.op = "create" /\ map = "b" /\ last.container = "app"
    /\ Errors # {}
    /\ last.log[FirstError].call = "wait"
    /\ \E i \in NamedCreates : i < FirstError /\ last.log[i].name = <<"b", "sock">>
    /\ last.log[Len(last.log)].call = "remove_container"
    /\ last.log[Len(last.log)].ok = "ok"
    /\ <<"b", "sock">> \in rt_containers

\* C8: when create(X) and then start(X) run with dependencies on an empty
\* runtime and every call succeeds, each name a start call passes in
\* volumes_from or as a link key is that of a container that exists and is
\* running when the call is issued.
C8_StartReferencesExist ==
    (/\ last.op = "start" /\ last.before.fresh = last.container
     /\ last.args.deps /\ last.args.instances = <<>> /\ last.args.kw.volumes_from = <<>>
     /\ last.err.kind = "ok") =>
        \A i \in 1..Len(last.log) :
            last.log[i].call = "start" =>
                \A n \in Range(last.log[i].args.volumes_from) \cup last.log[i].args.links.keys :
                    n \in last.log[i].rt /\ n \in last.log[i].run

\* the instance visits of the last operation's log, in order: a created
\* instance or one found to exist, as (container, physical name)
IsVisit(e) ==
    /\ e.call = "create_container" \/ (e.call = "push_log" /\ e.args.command = "exists")
    /\ Len(e.name) >= 2
    /\ e.name[2] = e.c

Visits ==
    LET v == SelectSeq(last.log, IsVisit)
    IN [i \in 1..Len(v) |-> <<v[i].c, v[i].name>>]

\* C9: a create that completes returns one (container, physical name) pair
\* for every instance it visited, created or found existing, of the
\* dependencies and then of the target, in the order of processing, and no
\* pair for an attached volume.
C9_CreateReturns ==
    (last.op = "create" /\ last.err.kind = "ok") =>
        LET X == last.container
            own == {cname(M, X, i) :
                       i \in Range(OrSeq(last.args.instances, OrSeq(M.cfg[X].instances, <<None>>)))}
            scope == IF last.args.deps THEN TransDeps(X) ELSE {}
        IN /\ last.ret = Visits
           /\ {p[2] : p \in Range(last.ret)} = own \cup UNION {AssignedNames(d) : d \in scope}
           /\ \A i, j \in 1..Len(last.ret) :
                 /\ (last.ret[i][1] = X /\ last.ret[j][1] # X) => j < i
                 /\ (/\ last.ret[i][1] # last.ret[j][1]
                     /\ last.ret[i][1] \in TransDeps(last.ret[j][1])) => i < j
                 /\ (last.ret[i] = last.ret[j]) => i = j
           /\ \A i \in 1..Len(last.ret) : ~IsVolumeName(last.ret[i][2])

C9_Witness ==
    /\ last.op = "create" /\ last.err.kind = "ok" /\ last.args.deps /\ last.args.attached
    /\ map = "b" /\ last.container = "web" /\ last.args.instances = <<>>
    /\ Len(last.ret) = 4
    /\ <<"b", "app", "i1">> \in last.before.names.set
    /\ Cardinality(NamedCreates) = 3
    /\ VolumeCallsOf("create_container", "app") # {}

\* C10: remove without an instance list removes every instance the
\* container's assignment specifies, the default instance when it names none.
C10_RemoveAllAssigned ==
    (/\ last.op = "remove" /\ last.args.instances = <<>> /\ Errors = {}
     /\ last.before.names.loaded
     /\ AssignedNames(last.container) \subseteq last.before.names.set \cap last.before.rt) =>
        /\ last.err.kind = "ok"
        /\ AssignedNames(last.container) \cap rt_containers = {}
        /\ \A n \in AssignedNames(last.container) :
              \E i \in 1..Len(last.log) :
                  last.log[i].call = "remove_container" /\ last.log[i].name = n

\* the physical names stop(X) targets: the given or assigned instances of
\* X and, with autostop_dependent, the assigned instances of its dependents
StopTargets ==
    LET X == last.container
    IN {cname(M, X, i) :
           i \in Range(OrSeq(last.args.instances, OrSeq(M.cfg[X].instances, <<None>>)))}
       \cup (IF last.args.deps
             THEN UNION {AssignedNames(D) : D \in TransDependents(X)}
             ELSE {})

\* C11: stop called with extra keyword options issues, for every targeted
\* instance of every dependent and of the target, one stop call that carries
\* those options.
C11_StopOptionsPassed ==
    (last.op = "stop" /\ last.args.kwargs # None /\ Acyclic) =>
        \A n \in StopTargets :
            Cardinality({i \in 1..Len(last.log) :
                            /\ last.log[i].call = "stop"
                            /\ last.log[i].name = n
                            /\ last.log[i].args.opts = last.args.kwargs}) = 1

\* a dependency cycle lies in what X depends on, or in what depends on X
OnCycle(c) == c \in TransDeps(c)
CycleAhead(X) == \E c \in TransDeps(X) \cup {X} : OnCycle(c)
CycleBehind(X) == \E c \in TransDependents(X) \cup {X} : OnCycle(c)

DependencyCalls ==
    {i \in 1..Len(last.log) :
        /\ last.log[i].k > 0
        /\ last.log[i].c \notin {None, last.container}
        /\ Len(last.log[i].name) >= 2
        /\ last.log[i].name[2] = last.log[i].c}

\* the volumes, volumes_from names and binds an assignment alone gives
OwnVolumes(c) ==
    M.cfg[c].shares \o [i \in 1..Len(M.cfg[c].binds) |-> M.volumes[M.cfg[c].binds[i].volume]]

OwnVolumesFrom(c) ==
    [i \in 1..Len(M.cfg[c].uses \o M.cfg[c].attaches) |->
        <<M.name, (M.cfg[c].uses \o M.cfg[c].attaches)[i]>>]

\* C13: in create and start with automatic dependency handling, a call for
\* a dependency uses the dependency's own instances, volumes, user,
\* environment and volumes_from, and nothing the caller passed for the
\* target appears in it.
C13_OverridesTargetOnly ==
    (last.op \in {"create", "start"} /\ last.args.deps /\ Acyclic) =>
        \A i \in DependencyCalls :
            LET e == last.log[i]
            IN /\ e.name \in AssignedNames(e.c)
               /\ e.args.opts = None
               /\ e.call = "create_container" =>
                     /\ last.op = "create"
                     /\ e.args.volumes = OwnVolumes(e.c)
                     /\ e.args.user = M.cfg[e.c].user
                     /\ e.args.environment = M.cfg[e.c].environment
                     /\ Range(last.args.kw.volumes) \cap Range(e.args.volumes) = {}
               /\ e.call = "start" =>
                     /\ last.op = "start"
                     /\ e.args.volumes_from = OwnVolumesFrom(e.c)
                     /\ Range(last.args.kw.volumes_from) \cap Range(e.args.volumes_from) = {}
                     /\ \A h \in last.args.kw.binds.keys \cap e.args.binds.keys :
                           e.args.binds.val[h] # last.args.kw.binds.val[h]
                     /\ \A h \in e.args.binds.keys :
                           \E j \in 1..Len(M.cfg[e.c].binds) :
                               e.args.binds.val[h] =
                                   [bind |-> M.volumes[M.cfg[e.c].binds[j].volume],
                                    ro |-> ~M.cfg[e.c].binds[j].rw]

C13_Witness ==
    /\ map = "b" /\ last.op = "create" /\ last.container = "web" /\ last.args.deps
    /\ last.args.instances = <<"i1">> /\ last.args.kw.user = "admin"
    /\ last.err.kind = "ok"
    /\ \E i \in DependencyCalls :
          last.log[i].name = <<"b", "app", "i2">> /\ last.log[i].args.user = "app"
    /\ \E i \in 1..Len(last.log) :
          /\ last.log[i].name = <<"b", "web", "i1">>
          /\ last.log[i].args.user = "admin"
          /\ "/tmp" \in Range(last.log[i].args.volumes)

\* the named create_container and remove_container calls of the last
\* operation that the runtime failed
FailedNamed(call) ==
    {i \in Errors : last.log[i].call = call /\ last.log[i].name # Helper}

\* C14: the name cache changes only after the runtime call has succeeded:
\* when a create_container or remove_container call fails, its name is in
\* the cache afterwards exactly if it was before the operation.
C14_CacheAfterSuccess ==
    last.op \in {"create", "remove", "wait_and_remove"} =>
        \A i \in FailedNamed("create_container") \cup FailedNamed("remove_container") :
            (last.log[i].name \in container_names.set) <=>
                (last.before.names.loaded /\ last.log[i].name \in last.before.names.set)

\* every runtime call of the last operation succeeded
AllSucceeded ==
    \A i \in 1..Len(last.log) : last.log[i].ok = "ok"

\* C15: an operation that completes with every runtime call succeeding
\* keeps the name cache coherent: if the cache, where loaded, equalled the
\* runtime's named containers before and no helper was left over, then the
\* cache, once loaded, equals the runtime's named containers after it, and
\* no helper is left over.
C15_CacheCoherent ==
    (/\ last.op \in {"create", "start", "stop", "remove", "wait_and_remove", "refresh_names"}
     /\ last.err.kind = "ok"
     /\ AllSucceeded
     /\ last.before.names.loaded => last.before.names.set = last.before.rt
     /\ last.before.helpers = 0
     /\ container_names.loaded) =>
        /\ container_names.set = rt_containers
        /\ rt_helpers = 0

C15_Witness ==
    /\ last.op = "remove" /\ last.err.kind = "ok" /\ AllSucceeded
    /\ last.before.names.loaded
    /\ last.before.names.set = last.before.rt
    /\ \E i \in 1..Len(last.log) :
          last.log[i].call = "remove_container" /\ last.log[i].name \in last.before.rt
    /\ container_names.set = rt_containers
    /\ Cardinality(rt_containers) < Cardinality(last.before.rt)
    /\ rt_containers # {}

\* the positions of the last operation's log holding a call of this method
Positions(call) == {i \in 1..Len(last.log) : last.log[i].call = call}

\* C16: create imports a required image only when the cached image tags do
\* not hold its "name:tag" (tag "latest" when the reference has none), and
\* reloads a loaded image-tag cache only directly after an import.
C16_ImportOnlyMissing ==
    last.op = "create" =>
        /\ \A i \in Positions("import_image") :
              /\ last.log[i].tags.loaded
              /\ Imported(last.log[i].args.image) \notin last.log[i].tags.set
        /\ \A i \in Positions("get_image_tags") :
              last.log[i].tags.loaded =>
                  /\ i > 1
                  /\ last.log[i - 1].call = "import_image"
                  /\ last.log[i - 1].ok = "ok"

\* the reload half alone
C16_ReloadOnlyAfterImport ==
    last.op = "create" =>
        \A i \in Positions("get_image_tags") :
              last.log[i].tags.loaded =>
                  /\ i > 1
                  /\ last.log[i - 1].call = "import_image"
                  /\ last.log[i - 1].ok = "ok"

\* the import half for references without a tag
C16_UntaggedImportOnlyMissing ==
    last.op = "create" =>
        \A i \in Positions("import_image") :
              last.log[i].args.image.tag = "" =>
                  /\ last.log[i].tags.loaded
                  /\ Imported(last.log[i].args.image) \notin last.log[i].tags.set

\* the image was imported by a successful call before position i
ImportedBefore(i, image) ==
    \E j \in 1..(i - 1) :
        /\ last.log[j].call = "import_image"
        /\ last.log[j].ok = "ok"
        /\ Imported(last.log[j].args.image) = Imported(image)

\* the loaded image-tag cache reported the image missing before position i
ReportedMissingBefore(i, image) ==
    \E j \in 1..(i - 1) :
        /\ last.log[j].tags.loaded
        /\ Imported(image) \notin last.log[j].tags.set

\* C17: an attached-volume container or a helper container is created from
\* the base image or the core image only after every one of the two that the
\* image-tag cache reported missing has been imported.
C17_AllMissingImported ==
    last.op = "create" =>
        \A i \in Positions("create_container") :
            last.log[i].args.image \in {DEFAULT_BASEIMAGE, DEFAULT_COREIMAGE} =>
                (ReportedMissingBefore(i, last.log[i].args.image) =>
                    ImportedBefore(i, last.log[i].args.image))

\* the base image, checked first, is imported when missing
C17_FirstMissingImported ==
    last.op = "create" =>
        \A i \in Positions("create_container") :
            last.log[i].args.image = DEFAULT_BASEIMAGE =>
                (ReportedMissingBefore(i, last.log[i].args.image) =>
                    ImportedBefore(i, last.log[i].args.image))

\* the host binds the map gives an instance: for each bind of the assignment
\* the single host path, or the instance's own path of a per-instance entry
RECURSIVE ExpectedHostBinds(_, _, _)
ExpectedHostBinds(binds, instance, d) ==
    IF binds = <<>> THEN d
    ELSE LET alias == Head(binds).volume
             share == M.host[alias]
             emits == /\ alias \in DOMAIN M.host
                      /\ \/ share.kind = "single"
                         \/ instance # None /\ instance \in share.at
             key == IF share.kind = "single" THEN share.path ELSE share.paths[instance]
             bind == [bind |-> M.volumes[alias], ro |-> ~Head(binds).rw]
         IN ExpectedHostBinds(Tail(binds), instance, IF emits THEN DictPut(d, key, bind) ELSE d)

\* the start calls of the last operation for instances of assignments
InstanceStarts ==
    {i \in Positions("start") :
        /\ last.log[i].c \in Containers(M)
        /\ Len(last.log[i].name) >= 2
        /\ last.log[i].name[2] = last.log[i].c}

InstanceOf(n) == IF Len(n) = 3 THEN n[3] ELSE None

\* some bind of the instance has a per-instance host entry without its path
Unmapped(c, instance) ==
    \E j \in 1..Len(M.cfg[c].binds) :
        LET alias == M.cfg[c].binds[j].volume
        IN /\ alias \in DOMAIN M.host
           /\ M.host[alias].kind = "dict"
           /\ instance # None
           /\ instance \notin M.host[alias].at

\* C18: start passes each instance exactly the host binds of its
\* assignment: the instance's explicit path of a per-instance entry (none
\* when the entry has no path for it or the instance is the default one), the
\* single path for every instance, nothing without an entry, and never a bind
\* under the key None; the caller's binds are laid over those of the target.
C18_HostBinds ==
    last.op = "start" =>
        \A i \in InstanceStarts :
            LET e == last.log[i]
                own == ExpectedHostBinds(M.cfg[e.c].binds, InstanceOf(e.name), EmptyDict)
            IN /\ None \notin e.args.binds.keys
               /\ e.args.binds = IF e.c = last.container
                                 THEN DictUpdate(own, last.args.kw.binds) ELSE own

\* the same for the instances whose per-instance entries hold their path
C18_HostBindsWhereMapped ==
    last.op = "start" =>
        \A i \in InstanceStarts :
            LET e == last.log[i]
                own == ExpectedHostBinds(M.cfg[e.c].binds, InstanceOf(e.name), EmptyDict)
            IN ~Unmapped(e.c, InstanceOf(e.name)) =>
                  /\ None \notin e.args.binds.keys
                  /\ e.args.binds = IF e.c = last.container
                                    THEN DictUpdate(own, last.args.kw.binds) ELSE own

\* the names remove is asked to remove
RemoveTargets ==
    {cname(M, last.container, i) : i \in Range(OrSeq(last.args.instances, <<None>>))}

\* C19: whatever the state of the name cache, a remove that the runtime does
\* not fail issues exactly one remove_container call for each named instance
\* (or for the default instance), and afterwards none of these names is cached.
C19_RemoveAlwaysCalls ==
    (last.op = "remove" /\ last.fail = NoFail) =>
        \A n \in RemoveTargets :
            /\ Cardinality({i \in Positions("remove_container") : last.log[i].name = n}) = 1
            /\ n \notin container_names.set

\* the same when the loaded cache held every name to remove
C19_RemoveCachedCalls ==
    (/\ last.op = "remove" /\ last.fail = NoFail
     /\ last.before.names.loaded
     /\ RemoveTargets \subseteq last.before.names.set) =>
        \A n \in RemoveTargets :
            /\ Cardinality({i \in Positions("remove_container") : last.log[i].name = n}) = 1
            /\ n \notin container_names.set

\* the attached-volume containers create is to provide: those of the
\* container and, with automatic dependencies, of all it depends on
AttachedOf(c) == {cname(M, alias, None) : alias \in Range(M.cfg[c].attaches)}

ProvidedBy(X, deps) == {X} \cup (IF deps THEN TransDeps(X) ELSE {})

\* C20: when create returns successfully, every attached-volume container of
\* the container and of its dependencies has been started and, when the
\* owning assignment sets a user or permissions, its helper has run to
\* completion; over any sequence of operations, retries after a failed
\* create included.
C20_VolumesPrepared ==
    (last.op = "create" /\ last.err.kind = "ok" /\ last.args.attached) =>
        \A c \in ProvidedBy(last.container, last.args.deps) :
            \A v \in AttachedOf(c) :
                /\ v \in rt_running
                /\ (M.cfg[c].user # None \/ M.cfg[c].permissions # None) => v \in rt_adjusted

\* the same for a create that met none of these volume containers in the cache
C20_NewVolumesPrepared ==
    (last.op = "create" /\ last.err.kind = "ok" /\ last.args.attached) =>
        \A c \in ProvidedBy(last.container, last.args.deps) :
            \A v \in AttachedOf(c) :
                ~(last.before.names.loaded /\ v \in last.before.names.set) =>
                    /\ v \in rt_running
                    /\ (M.cfg[c].user # None \/ M.cfg[c].permissions # None) => v \in rt_adjusted
====
